---- MODULE Spec2Model ----
(***************************************************************************)
(* Model of the ledger handlers of src/unnamed/part_000 (the full app.js:  *)
(* pay for a job, deposit) as express handlers that interleave at every    *)
(* await on the shared sqlite store.                                       *)
(*                                                                         *)
(* Money: the store keeps DECIMAL(12,2) columns; sqlite hands them to the  *)
(* handlers as IEEE-754 doubles and the handlers compute on those doubles  *)
(* and write back the string (x).toFixed(2). The store's value of a        *)
(* balance or a price is therefore always a whole number of cents, which   *)
(* is how the state holds it; every computation of a handler is done on    *)
(* doubles (the section "binary64" below) as the code does it.             *)
(***************************************************************************)
EXTENDS Integers, Sequences, FiniteSets, TLC

(***************************************************************************)
(* binary64. A finite double is [s, m, e]: sign s (1 or -1), mantissa m   *)
(* as a sequence of bits, most significant first, first and last bit 1    *)
(* (<<>> for zero), and e the binary exponent of the last bit:            *)
(* value = s * m * 2^e. Every operation computes the exact result and     *)
(* rounds it to 53 bits, to nearest, ties to even.                        *)
(***************************************************************************)
Precision == 53

FZero == [s |-> 1, m |-> <<>>, e |-> 0]

\* The bits of the natural number n (below 2^31), <<>> for 0.
NatBits(n) ==
    LET len == CHOOSE k \in 0..31 : n < 2^k /\ (k = 0 \/ 2^(k - 1) <= n)
    IN [i \in 1..len |-> (n \div 2^(len - i)) % 2]

\* The number whose bits lo..hi of b are.
RECURSIVE BitsVal(_, _, _)
BitsVal(b, lo, hi) ==
    IF lo > hi THEN 0
    ELSE IF lo = hi THEN b[lo]
    ELSE LET mid == (lo + hi) \div 2
         IN BitsVal(b, lo, mid) * 2^(hi - mid) + BitsVal(b, mid + 1, hi)

BitsNat(b) == BitsVal(b, 1, Len(b))

Zeros(n) == [i \in 1..n |-> 0]

\* Canonical form of s * b * 2^e: no leading and no trailing zero bit.
Normal(s, b, e) ==
    IF \A i \in 1..Len(b) : b[i] = 0 THEN FZero
    ELSE LET lo == CHOOSE i \in 1..Len(b) :
                       b[i] = 1 /\ \A j \in 1..(i - 1) : b[j] = 0
             hi == CHOOSE i \in 1..Len(b) :
                       b[i] = 1 /\ \A j \in (i + 1)..Len(b) : b[j] = 0
         IN [s |-> s, m |-> SubSeq(b, lo, hi), e |-> e + (Len(b) - hi)]

\* b + 1 on a sequence of bits that holds at least one zero bit.
IncBits(b) ==
    LET p == CHOOSE i \in 1..Len(b) :
                 b[i] = 0 /\ \A j \in (i + 1)..Len(b) : b[j] = 1
    IN [i \in 1..Len(b) |-> IF i < p THEN b[i] ELSE IF i = p THEN 1 ELSE 0]

\* Round s * b * 2^e (b starts with a 1 bit; sticky: a nonzero rest lies
\* below the last bit of b) to Precision bits, to nearest, ties to even.
Round53(s, b, e, sticky) ==
    IF Len(b) <= Precision THEN Normal(s, b, e)
    ELSE LET keep == SubSeq(b, 1, Precision)
             guard == b[Precision + 1]
             rest == sticky \/ \E i \in (Precision + 2)..Len(b) : b[i] = 1
             up == guard = 1 /\ (rest \/ keep[Precision] = 1)
             e2 == e + (Len(b) - Precision)
         IN IF ~up THEN Normal(s, keep, e2)
            ELSE IF \A i \in 1..Precision : keep[i] = 1
                 THEN Normal(s, <<1>>, e2 + Precision)
                 ELSE Normal(s, IncBits(keep), e2)

\* Long division by the small integer d over the places lo..hi of the bit
\* sequence b (zeros follow its last bit), entered with remainder r. Yields
\* [q, r]: the quotient's bits at these places and the remainder left.
RECURSIVE DivBits(_, _, _, _, _)
DivBits(b, d, lo, hi, r) ==
    IF lo > hi THEN [q |-> <<>>, r |-> r]
    ELSE IF lo = hi
         THEN LET v == 2 * r + (IF lo <= Len(b) THEN b[lo] ELSE 0)
              IN [q |-> <<v \div d>>, r |-> v % d]
    ELSE LET mid == (lo + hi) \div 2
             left == DivBits(b, d, lo, mid, r)
             right == DivBits(b, d, mid + 1, hi, left.r)
         IN [q |-> left.q \o right.q, r |-> right.r]

\* x / d for a double x and a small positive integer d. The quotient's
\* first 1 bit lies at most Len(NatBits(d)) places after the first bit of
\* x.m, so the places computed hold Precision + 2 significant bits or more.
FDivInt(x, d) ==
    IF x.m = <<>> THEN FZero
    ELSE LET n == IF Len(x.m) > Precision + 2 THEN Len(x.m) ELSE Precision + 2
             places == n + Len(NatBits(d))
             res == DivBits(x.m, d, 1, places, 0)
             lead == CHOOSE i \in 1..places :
                         res.q[i] = 1 /\ \A j \in 1..(i - 1) : res.q[j] = 0
         IN Round53(x.s, SubSeq(res.q, lead, places),
                    x.e - (places - Len(x.m)), res.r # 0)

\* The bits of b in reverse order.
Reverse(b) == [i \in 1..Len(b) |-> b[Len(b) + 1 - i]]

\* The product of the bit sequence b and the small integer k over the places
\* lo..hi counted from the last bit of b, entered with carry c. Yields
\* [q, c]: the product's bits at these places, lowest first, and the carry.
RECURSIVE MulScan(_, _, _, _, _)
MulScan(b, k, lo, hi, c) ==
    IF lo > hi THEN [q |-> <<>>, c |-> c]
    ELSE IF lo = hi
         THEN LET v == b[Len(b) + 1 - lo] * k + c
              IN [q |-> <<v % 2>>, c |-> v \div 2]
    ELSE LET mid == (lo + hi) \div 2
             low == MulScan(b, k, lo, mid, c)
             high == MulScan(b, k, mid + 1, hi, low.c)
         IN [q |-> low.q \o high.q, c |-> high.c]

\* The exact product b * k of a bit sequence and a small positive integer.
MulBits(b, k) ==
    LET res == MulScan(b, k, 1, Len(b), 0) IN NatBits(res.c) \o Reverse(res.q)

\* x * k for a double x and a small positive integer k.
FMulInt(x, k) ==
    IF x.m = <<>> THEN FZero
    ELSE Round53(x.s, MulBits(x.m, k), x.e, FALSE)

\* The mantissas of x and y on their common lowest exponent, in equal length.
Aligned(x, y) ==
    LET e0 == IF x.e < y.e THEN x.e ELSE y.e
        bx == x.m \o Zeros(x.e - e0)
        by == y.m \o Zeros(y.e - e0)
        n == IF Len(bx) < Len(by) THEN Len(by) ELSE Len(bx)
    IN [x |-> Zeros(n - Len(bx)) \o bx, y |-> Zeros(n - Len(by)) \o by, e |-> e0]

\* |x| < |y|
MagLess(x, y) ==
    LET a == Aligned(x, y) IN
    \E i \in 1..Len(a.x) :
        /\ a.x[i] < a.y[i]
        /\ \A j \in 1..(i - 1) : a.x[j] = a.y[j]

\* bx + sign * by for two bit sequences of equal length, over the places
\* lo..hi counted from their last bit, entered with carry (or borrow) c.
\* Yields [q, c]: the bits at these places, lowest first, and the carry.
RECURSIVE AddScan(_, _, _, _, _, _)
AddScan(bx, by, sign, lo, hi, c) ==
    IF lo > hi THEN [q |-> <<>>, c |-> c]
    ELSE IF lo = hi
         THEN LET v == bx[Len(bx) + 1 - lo] + sign * (by[Len(by) + 1 - lo] + c)
              IN [q |-> <<v % 2>>, c |-> IF v < 0 \/ v > 1 THEN 1 ELSE 0]
    ELSE LET mid == (lo + hi) \div 2
             low == AddScan(bx, by, sign, lo, mid, c)
             high == AddScan(bx, by, sign, mid + 1, hi, low.c)
         IN [q |-> low.q \o high.q, c |-> high.c]

\* bx + by
AddBits(bx, by) ==
    LET res == AddScan(bx, by, 1, 1, Len(bx), 0)
    IN (IF res.c = 1 THEN <<1>> ELSE <<>>) \o Reverse(res.q)

\* bx - by for bx >= by
SubBits(bx, by) == Reverse(AddScan(bx, by, -1, 1, Len(bx), 0).q)

\* Rounds an exact sum or difference whose bits may start with zeros.
RoundExact(s, b, e) ==
    LET n == Normal(s, b, e) IN
    IF n.m = <<>> THEN FZero ELSE Round53(n.s, n.m, n.e, FALSE)

\* x + y
FAdd(x, y) ==
    LET a == Aligned(x, y) IN
    IF x.m = <<>> THEN y
    ELSE IF y.m = <<>> THEN x
    ELSE IF x.s = y.s
         THEN RoundExact(x.s, AddBits(a.x, a.y), a.e)
    ELSE IF MagLess(x, y)
         THEN RoundExact(y.s, SubBits(a.y, a.x), a.e)
    ELSE RoundExact(x.s, SubBits(a.x, a.y), a.e)

FNeg(x) == IF x.m = <<>> THEN x ELSE [x EXCEPT !.s = -x.s]

\* x - y
FSub(x, y) == FAdd(x, FNeg(y))

\* x < y
FLess(x, y) ==
    IF x.m = <<>> THEN y.m # <<>> /\ y.s = 1
    ELSE IF y.m = <<>> THEN x.s = -1
    ELSE IF x.s # y.s THEN x.s = -1
    ELSE IF x.s = 1 THEN MagLess(x, y)
    ELSE MagLess(y, x)

\* The double nearest to c / 100: what sqlite yields for the decimal text of
\* c cents, and what JSON.parse yields for an amount written with two decimals.
FromCents(c) ==
    IF c = 0 THEN FZero
    ELSE FDivInt([s |-> IF c < 0 THEN -1 ELSE 1,
                  m |-> NatBits(IF c < 0 THEN -c ELSE c), e |-> 0], 100)

\* Number.prototype.toFixed(2), as the cents of the string it yields: the
\* integer n with n / 100 - x closest to zero, the larger n of two, on |x|.
ToFixed2(x) ==
    IF x.m = <<>> THEN 0
    ELSE LET b == MulBits(x.m, 100)
             k == -x.e
             whole == IF k <= 0 THEN BitsNat(b \o Zeros(-k))
                      ELSE IF k >= Len(b) THEN 0
                      ELSE BitsNat(SubSeq(b, 1, Len(b) - k))
             half == IF k <= 0 \/ k > Len(b) THEN 0 ELSE b[Len(b) - k + 1]
         IN x.s * (whole + half)


(***************************************************************************)
(* The store. Profiles, contracts and jobs are rows the handlers never     *)
(* create or delete; the handlers write Profile.balance and Job.paid only. *)
(***************************************************************************)
\* Job.paid holds NULL or TRUE_ (1); Job.paymentDate holds <<>> (null) or
\* <<t>>, the time t.
NULL == "null"

TRUE_ == "true"

Profiles == {1, 2, 3}

ProfileType == [p \in Profiles |-> IF p \in {1, 2} THEN "client" ELSE "contractor"]

ContractIds == {1, 2, 3}

Contract ==
    [c \in ContractIds |->
        CASE c = 1 -> [ClientId |-> 1, ContractorId |-> 3, status |-> "in_progress"]
          [] c = 2 -> [ClientId |-> 2, ContractorId |-> 3, status |-> "new"]
          [] c = 3 -> [ClientId |-> 2, ContractorId |-> 3, status |-> "terminated"]]

JobIds == {1, 2, 3, 4}

\* Job rows: ContractId and price (in cents) never change.
Job ==
    [j \in JobIds |->
        CASE j = 1 -> [ContractId |-> 1, price |-> 10000]
          [] j = 2 -> [ContractId |-> 2, price |-> 2900]
          [] j = 3 -> [ContractId |-> 3, price |-> 2901]
          [] j = 4 -> [ContractId |-> 1, price |-> 5000]]

\* The rows as seeded: job 4 was paid before, at time 1.
InitBalance == [p \in Profiles |-> CASE p = 1 -> 50000 [] p = 2 -> 2900
                                     [] p = 3 -> 0]

InitPaid == [j \in JobIds |-> IF j = 4 THEN TRUE_ ELSE NULL]

InitPaymentDate == [j \in JobIds |-> IF j = 4 THEN <<1>> ELSE <<>>]

\* How many requests are served, each from its start to its response.
MaxReqs == 2

Reqs == 1..MaxReqs

\* The inputs of the requests: req.params.job_id (5 is the id of no job),
\* req.params.userId and req.body.amount (in cents).
JobIdInputs == JobIds \cup {5}

Amounts == {-1000, 0, 725, 2500, 2501}

VARIABLES
    balance,      \* Profile.balance of every profile, in cents
    paid,         \* Job.paid of every job: NULL or TRUE_
    paymentDate,  \* Job.paymentDate of every job: <<>> or <<t>>
    req,          \* every request: its inputs, its place in its handler, the
                  \* handler's local variables, its response, and as history:
                  \* wrote, the updates it has run; clientBefore/After and
                  \* contractorBefore/After, the stored balance around its two
                  \* balance updates; total, the unpaid total its ceiling
                  \* check ran on (the exact sum, in cents)
    touched       \* history: the rows whose value a request has changed

vars == <<balance, paid, paymentDate, req, touched>>

Idle ==
    [op |-> "none", pc |-> "idle", caller |-> 0, arg |-> 0, amount |-> 0,
     clientBalance |-> 0, contractorBalance |-> 0, status |-> "none",
     wrote |-> {}, clientBefore |-> 0, clientAfter |-> 0,
     contractorBefore |-> 0, contractorAfter |-> 0, total |-> 0]

Init ==
    /\ balance = InitBalance
    /\ paid = InitPaid
    /\ paymentDate = InitPaymentDate
    /\ req = [r \in Reqs |-> Idle]
    /\ touched = [r \in Reqs |-> {}]

\* The rows whose value differs between this state and the next.
Changed ==
    {<<"Profile", p>> : p \in {q \in Profiles : balance'[q] # balance[q]}}
    \cup {<<"Job", j>> : j \in {k \in JobIds : paid'[k] # paid[k]
                                              \/ paymentDate'[k] # paymentDate[k]}}

Touch(r) == touched' = [touched EXCEPT ![r] = @ \cup Changed]

\* A request starts once the requests before it have started.
CanStart(r) ==
    /\ req[r].pc = "idle"
    /\ \A q \in Reqs : q < r => req[q].pc # "idle"

\* The handler has sent its response: its local variables are gone.
Respond(rq, status) ==
    [rq EXCEPT !.pc = "done", !.status = status,
               !.clientBalance = 0, !.contractorBalance = 0]

(***************************************************************************)
(* POST /jobs/:job_id/pay                                                  *)
(***************************************************************************)
ClientOf(j) == Contract[Job[j].ContractId].ClientId

ContractorOf(j) == Contract[Job[j].ContractId].ContractorId

\* The authorization check as a check for either party of the contract.
PayAuthorizedAnyParty(caller, j) == caller \in {ClientOf(j), ContractorOf(j)}

\* contract.ClientId !== clientId is false
PayAuthorized(caller, j) == ClientOf(j) = caller

\* clientProfile.balance < jobToPay.price, on doubles
NotEnoughBalance(clientCents, priceCents) ==
    FLess(FromCents(clientCents), FromCents(priceCents))

\* (clientProfile.balance - jobToPay.price).toFixed(2)
DebitedBalance(clientCents, priceCents) ==
    ToFixed2(FSub(FromCents(clientCents), FromCents(priceCents)))

\* (contractorProfile.balance + jobToPay.price).toFixed(2)
CreditedBalance(contractorCents, priceCents) ==
    ToFixed2(FAdd(FromCents(contractorCents), FromCents(priceCents)))

\* Job.findOne, the paid check, Contract.findOne and the authorization
\* check. Contracts never change and the request has no effect before its
\* first read, so the steps up to the first read of a balance are one step.
StartPay(r, caller, jobId) ==
    /\ CanStart(r)
    /\ LET rq == [Idle EXCEPT !.op = "pay", !.caller = caller, !.arg = jobId] IN
       req' = [req EXCEPT ![r] =
                 IF jobId \notin JobIds THEN Respond(rq, "NotFound")
                 ELSE IF paid[jobId] # NULL THEN Respond(rq, "AlreadyPaid")
                 ELSE IF ~PayAuthorized(caller, jobId) THEN Respond(rq, "Forbidden")
                 ELSE [rq EXCEPT !.pc = "findClient"]]
    /\ UNCHANGED <<balance, paid, paymentDate>>
    /\ Touch(r)

\* clientProfile = await Profile.findOne({ where: { id: clientId } })
PayFindClient(r) ==
    /\ req[r].pc = "findClient"
    /\ req' = [req EXCEPT ![r].pc = "findContractor",
                          ![r].clientBalance = balance[req[r].caller]]
    /\ UNCHANGED <<balance, paid, paymentDate>>
    /\ Touch(r)

\* contractorProfile = await Profile.findOne(...), then the balance check
PayFindContractor(r) ==
    /\ req[r].pc = "findContractor"
    /\ LET rq == req[r] IN
       req' = [req EXCEPT ![r] =
                 IF NotEnoughBalance(rq.clientBalance, Job[rq.arg].price)
                 THEN Respond(rq, "InsufficientBalance")
                 ELSE [rq EXCEPT !.pc = "updateClient",
                                 !.contractorBalance = balance[ContractorOf(rq.arg)]]]
    /\ UNCHANGED <<balance, paid, paymentDate>>
    /\ Touch(r)

\* Profile.update of the client. Its third argument { transaction: t } is
\* no argument of Model.update(values, options): the write runs outside the
\* transaction and the store keeps it at once.
PayUpdateClient(r) ==
    /\ req[r].pc = "updateClient"
    /\ balance' = [balance EXCEPT ![req[r].caller] =
                     DebitedBalance(req[r].clientBalance, Job[req[r].arg].price)]
    /\ req' = [req EXCEPT ![r].pc = "updateContractor",
                          ![r].wrote = @ \cup {"client"},
                          ![r].clientBefore = balance[req[r].caller],
                          ![r].clientAfter = balance'[req[r].caller]]
    /\ UNCHANGED <<paid, paymentDate>>
    /\ Touch(r)

\* Profile.update of the contractor, outside the transaction too
PayUpdateContractor(r) ==
    /\ req[r].pc = "updateContractor"
    /\ LET c == ContractorOf(req[r].arg) IN
       /\ balance' = [balance EXCEPT ![c] =
                        CreditedBalance(req[r].contractorBalance, Job[req[r].arg].price)]
       /\ req' = [req EXCEPT ![r].pc = "updateJob",
                             ![r].wrote = @ \cup {"contractor"},
                             ![r].contractorBefore = balance[c],
                             ![r].contractorAfter = balance'[c]]
    /\ UNCHANGED <<paid, paymentDate>>
    /\ Touch(r)

\* Job.update({ paid: 1 }), the commit of the (empty) transaction and the
\* response 200. paymentDate is no part of the update.
PayUpdateJob(r) ==
    /\ req[r].pc = "updateJob"
    /\ paid' = [paid EXCEPT ![req[r].arg] = TRUE_]
    /\ req' = [req EXCEPT ![r] =
                 Respond([req[r] EXCEPT !.wrote = @ \cup {"job"}], "OK")]
    /\ UNCHANGED <<balance, paymentDate>>
    /\ Touch(r)

\* The transaction cannot start, or one of the three updates throws: the
\* rollback of t undoes nothing, the writes made so far were not made in t.
PayWriteFails(r) ==
    /\ req[r].pc \in {"updateClient", "updateContractor", "updateJob"}
    /\ req' = [req EXCEPT ![r] = Respond(req[r], "Error")]
    /\ UNCHANGED <<balance, paid, paymentDate>>
    /\ Touch(r)

(***************************************************************************)
(* POST /balances/deposit/:userId                                          *)
(***************************************************************************)
\* getAllActiveContracts: the contracts of a user that are not terminated
ActiveContracts(id) ==
    {c \in ContractIds :
        /\ Contract[c].ContractorId = id \/ Contract[c].ClientId = id
        /\ Contract[c].status # "terminated"}

\* The jobs the sum runs over: Paid IS NULL, ContractId IN contractIds
UnpaidJobs(id) ==
    {j \in JobIds : paid[j] = NULL /\ Job[j].ContractId \in ActiveContracts(id)}

\* sum(price) as sqlite computes it: the doubles added up row by row
RECURSIVE SumPrices(_)
SumPrices(S) ==
    IF S = {} THEN FZero
    ELSE LET j == CHOOSE k \in S : \A i \in S : i <= k
         IN FAdd(SumPrices(S \ {j}), FromCents(Job[j].price))

\* (total / 100) * 25; a sum over no rows is null, and null / 100 is 0
DepositCeiling(S) == FMulInt(FDivInt(SumPrices(S), 100), 25)

\* amount > (total / 100) * 25
OverCeiling(amount, S) == FLess(DepositCeiling(S), FromCents(amount))

\* (userProfile.balance + amount).toFixed(2)
DepositedBalance(balanceCents, amount) ==
    ToFixed2(FAdd(FromCents(balanceCents), FromCents(amount)))

RECURSIVE SumCents(_)
SumCents(S) ==
    IF S = {} THEN 0
    ELSE LET j == CHOOSE k \in S : TRUE IN Job[j].price + SumCents(S \ {j})

\* The start of a deposit with the type check left out.
StartDepositAnyType(r, caller, userId, amount) ==
    /\ CanStart(r)
    /\ LET rq == [Idle EXCEPT !.op = "deposit", !.caller = caller,
                              !.arg = userId, !.amount = amount] IN
       req' = [req EXCEPT ![r] =
                 IF caller # userId THEN Respond(rq, "Forbidden")
                 ELSE [rq EXCEPT !.pc = "sumUnpaid",
                                 !.clientBalance = balance[userId]]]
    /\ UNCHANGED <<balance, paid, paymentDate>>
    /\ Touch(r)

\* The owner check, Profile.findOne and the type check; the request has no
\* effect before this first read.
StartDeposit(r, caller, userId, amount) ==
    /\ CanStart(r)
    /\ LET rq == [Idle EXCEPT !.op = "deposit", !.caller = caller,
                              !.arg = userId, !.amount = amount] IN
       req' = [req EXCEPT ![r] =
                 IF caller # userId THEN Respond(rq, "Forbidden")
                 ELSE IF ProfileType[userId] # "client" THEN Respond(rq, "Forbidden")
                 ELSE [rq EXCEPT !.pc = "sumUnpaid",
                                 !.clientBalance = balance[userId]]]
    /\ UNCHANGED <<balance, paid, paymentDate>>
    /\ Touch(r)

\* The deposit with the balance credited before the ceiling is checked.
DepSumUnpaidCreditFirst(r) ==
    /\ req[r].pc = "sumUnpaid"
    /\ balance' = [balance EXCEPT ![req[r].arg] =
                     DepositedBalance(req[r].clientBalance, req[r].amount)]
    /\ LET S == UnpaidJobs(req[r].caller)
           rq == [req[r] EXCEPT !.total = SumCents(S)]
       IN req' = [req EXCEPT ![r] =
                    IF OverCeiling(rq.amount, S)
                    THEN Respond(rq, "DepositLimitExceeded")
                    ELSE Respond(rq, "OK")]
    /\ UNCHANGED <<paid, paymentDate>>
    /\ Touch(r)

\* getAllActiveContracts, the sum over the unpaid jobs and the ceiling check
DepSumUnpaid(r) ==
    /\ req[r].pc = "sumUnpaid"
    /\ LET S == UnpaidJobs(req[r].caller)
           rq == [req[r] EXCEPT !.total = SumCents(S)]
       IN req' = [req EXCEPT ![r] =
                    IF OverCeiling(rq.amount, S)
                    THEN Respond(rq, "DepositLimitExceeded")
                    ELSE [rq EXCEPT !.pc = "update"]]
    /\ UNCHANGED <<balance, paid, paymentDate>>
    /\ Touch(r)

\* Profile.update of the balance and the response 200
DepUpdate(r) ==
    /\ req[r].pc = "update"
    /\ balance' = [balance EXCEPT ![req[r].arg] =
                     DepositedBalance(req[r].clientBalance, req[r].amount)]
    /\ req' = [req EXCEPT ![r] = Respond(req[r], "OK")]
    /\ UNCHANGED <<paid, paymentDate>>
    /\ Touch(r)

Next ==
    \/ \E r \in Reqs, caller \in Profiles, jobId \in JobIdInputs :
           StartPay(r, caller, jobId)
    \/ \E r \in Reqs : PayFindClient(r)
    \/ \E r \in Reqs : PayFindContractor(r)
    \/ \E r \in Reqs : PayUpdateClient(r)
    \/ \E r \in Reqs : PayUpdateContractor(r)
    \/ \E r \in Reqs : PayUpdateJob(r)
    \/ \E r \in Reqs : PayWriteFails(r)
    \/ \E r \in Reqs, caller \in Profiles, userId \in Profiles, amount \in Amounts :
           StartDeposit(r, caller, userId, amount)
    \/ \E r \in Reqs : DepSumUnpaid(r)
    \/ \E r \in Reqs : DepUpdate(r)

Spec == Init /\ [][Next]_vars

\* No handler is between its first read and its response.
NoneInFlight == \A q \in Reqs : req[q].pc \in {"idle", "done"}

\* The requests sent one after the other: each is sent once the one before
\* it has its response.
SeqNext ==
    \/ \E r \in Reqs, caller \in Profiles, jobId \in JobIdInputs :
           NoneInFlight /\ StartPay(r, caller, jobId)
    \/ \E r \in Reqs : PayFindClient(r)
    \/ \E r \in Reqs : PayFindContractor(r)
    \/ \E r \in Reqs : PayUpdateClient(r)
    \/ \E r \in Reqs : PayUpdateContractor(r)
    \/ \E r \in Reqs : PayUpdateJob(r)
    \/ \E r \in Reqs : PayWriteFails(r)
    \/ \E r \in Reqs, caller \in Profiles, userId \in Profiles, amount \in Amounts :
           NoneInFlight /\ StartDeposit(r, caller, userId, amount)
    \/ \E r \in Reqs : DepSumUnpaid(r)
    \/ \E r \in Reqs : DepUpdate(r)

SeqSpec == Init /\ [][SeqNext]_vars

(***************************************************************************)
(* The read-only handlers: GET /contracts/:id, GET /admin/best-profession  *)
(* and GET /admin/best-clients. They write nothing, so they are run on a   *)
(* store that does not change while they run, each as one step, and on a   *)
(* second database whose rows give them something to tell apart: three     *)
(* clients, three contractors, and jobs paid at different times. Of that   *)
(* database balance holds the Profile rows, paid and paymentDate the Job   *)
(* rows, and req the one request.                                          *)
(***************************************************************************)
QProfiles == {1, 2, 3, 4, 5, 6}

QProfile ==
    [p \in QProfiles |->
        CASE p = 4 -> [type |-> "contractor", profession |-> "Programmer"]
          [] p = 5 -> [type |-> "contractor", profession |-> "Musician"]
          [] p = 6 -> [type |-> "contractor", profession |-> "Fighter"]
          [] OTHER -> [type |-> "client", profession |-> "none"]]

QClients == {p \in QProfiles : QProfile[p].type = "client"}

QContractIds == {1, 2, 3, 4}

\* Contract 1 is a contract of client 2: profile 1 is no party of it.
QContract ==
    [c \in QContractIds |->
        CASE c = 1 -> [ClientId |-> 2, ContractorId |-> 4]
          [] c = 2 -> [ClientId |-> 1, ContractorId |-> 5]
          [] c = 3 -> [ClientId |-> 3, ContractorId |-> 5]
          [] c = 4 -> [ClientId |-> 3, ContractorId |-> 6]]

QJobIds == {1, 2, 3, 4}

\* Contractor 4 has one job of 0.30, contractor 5 jobs of 0.10 and 0.20.
QJob ==
    [j \in QJobIds |->
        CASE j = 1 -> [ContractId |-> 1, price |-> 30]
          [] j = 2 -> [ContractId |-> 2, price |-> 10]
          [] j = 3 -> [ContractId |-> 3, price |-> 20]
          [] j = 4 -> [ContractId |-> 4, price |-> 5000]]

\* The times at which the jobs of the database were paid.
MaxTime == 3

Times == 1..MaxTime

\* req.query.start and req.query.end: a date, written as the store writes
\* dates, or a text that is no date.
DateInputs ==
    {[valid |-> TRUE, t |-> t] : t \in Times} \cup {[valid |-> FALSE, t |-> 0]}

\* req.query.limit: <<>> when the query has none
LimitInputs == {<<>>, <<1>>, <<3>>}

\* req.params.id of GET /contracts/:id (5 is the id of no contract)
ContractIdInputs == QContractIds \cup {5}

QueryReqs == {1}

\* The rows of the database.
ProfileRows == DOMAIN balance

JobRows == DOMAIN paid

ContractRows ==
    {c \in QContractIds : {QContract[c].ClientId, QContract[c].ContractorId}
                              \subseteq ProfileRows}

\* A Job row: unpaid, paid at time t, or paid with no paymentDate (as the
\* pay handler leaves it).
JobStates ==
    {[paid |-> NULL, paymentDate |-> <<>>], [paid |-> TRUE_, paymentDate |-> <<>>]}
    \cup {[paid |-> TRUE_, paymentDate |-> <<t>>] : t \in Times}

IdleQuery ==
    [op |-> "none", pc |-> "idle", caller |-> 0, id |-> 0,
     start |-> [valid |-> FALSE, t |-> 0], end |-> [valid |-> FALSE, t |-> 0],
     limit |-> <<>>, status |-> "none", result |-> <<>>, counted |-> {}]

\* The database holds every profile and any state of the four jobs, or it
\* holds the clients only (no contractor, so no contract and no job).
QueryInit ==
    /\ \/ /\ balance = [p \in QProfiles |-> 0]
          /\ \E js \in [QJobIds -> JobStates] :
                /\ paid = [j \in QJobIds |-> js[j].paid]
                /\ paymentDate = [j \in QJobIds |-> js[j].paymentDate]
       \/ /\ balance = [p \in QClients |-> 0]
          /\ paid = [j \in {} |-> NULL]
          /\ paymentDate = [j \in {} |-> <<>>]
    /\ req = [r \in QueryReqs |-> IdleQuery]
    /\ touched = [r \in QueryReqs |-> {}]

\* paymentDate BETWEEN start AND end, on the texts of the dates: both ends
\* are included, null is between nothing, and a text that is no date (it
\* starts with a letter, and letters sort after digits) lies after every date.
Between(d, start, end) ==
    /\ d # <<>>
    /\ start.valid /\ start.t <= d[1]
    /\ ~end.valid \/ d[1] <= end.t

\* The Job rows a report sums: Paid not null, of these contracts, in range
PaidJobsBetween(contractIds, start, end) ==
    {j \in JobRows : /\ paid[j] # NULL
                     /\ QJob[j].ContractId \in contractIds
                     /\ Between(paymentDate[j], start, end)}

\* sum(price) over rows of the second database, the doubles added up
RECURSIVE QSumPrices(_)
QSumPrices(S) ==
    IF S = {} THEN FZero
    ELSE LET j == CHOOSE k \in S : \A i \in S : i <= k
         IN FAdd(QSumPrices(S \ {j}), FromCents(QJob[j].price))

\* The JS values of maxValue and of a total: Number.NEGATIVE_INFINITY, null
\* (the sum over no rows) and a double.
NegInfinity == [kind |-> "-Infinity"]

JsNull == [kind |-> "null"]

SumTotal(S) == IF S = {} THEN JsNull ELSE [kind |-> "number", v |-> QSumPrices(S)]

\* a < b of JS for such values (b is never -Infinity): null counts as 0
JsLess(a, b) ==
    IF a.kind = "-Infinity" THEN TRUE
    ELSE FLess(IF a.kind = "null" THEN FZero ELSE a.v,
               IF b.kind = "null" THEN FZero ELSE b.v)

\* for (const el of contractors): the contractors not yet visited are ids,
\* visited in the order of their ids, as sqlite yields the rows of a table.
\* acc holds maxValue, maxPaidContractorId (0: undefined) and, as history,
\* the Job rows summed so far.
RECURSIVE MaxPaidLoop(_, _, _, _)
MaxPaidLoop(ids, start, end, acc) ==
    IF ids = {} THEN acc
    ELSE LET el == CHOOSE p \in ids : \A q \in ids : p <= q
             contractIds == {c \in ContractRows : QContract[c].ContractorId = el}
             rows == PaidJobsBetween(contractIds, start, end)
             total == SumTotal(rows)
         IN MaxPaidLoop(ids \ {el}, start, end,
                IF JsLess(acc.maxValue, total)
                THEN [maxValue |-> total, maxPaidContractorId |-> el,
                      counted |-> acc.counted \cup rows]
                ELSE [acc EXCEPT !.counted = @ \cup rows])

\* GET /admin/best-profession. A bound that is no date goes to sequelize,
\* whose code is not part of this repository: the query throws (the handler
\* catches nothing and sends no response) or it compares the text.
BestProfession(r, start, end, throws) ==
    /\ req[r].pc = "idle"
    /\ throws => ~(start.valid /\ end.valid)
    /\ LET rq == [IdleQuery EXCEPT !.op = "bestProfession", !.pc = "done",
                                   !.start = start, !.end = end]
           contractors == {p \in ProfileRows : QProfile[p].type = "contractor"}
           res == MaxPaidLoop(contractors, start, end,
                              [maxValue |-> NegInfinity,
                               maxPaidContractorId |-> 0, counted |-> {}])
       IN req' = [req EXCEPT ![r] =
                    IF throws \/ res.maxPaidContractorId = 0
                    THEN [rq EXCEPT !.status = "NoResponse"]
                    ELSE [rq EXCEPT !.status = "OK", !.counted = res.counted,
                                    !.result =
                                        <<QProfile[res.maxPaidContractorId].profession>>]]
    /\ UNCHANGED <<balance, paid, paymentDate, touched>>

\* The Job rows the join of best-clients yields for the client p
ClientJobsBetween(p, start, end) ==
    PaidJobsBetween({c \in ContractRows : QContract[c].ClientId = p}, start, end)

\* ORDER by totPaid desc: the orders in which the rows of the groups S may
\* come; rows of equal totPaid come in any order.
OrdersByTotPaid(S, start, end) ==
    {o \in [1..Cardinality(S) -> S] :
        /\ \A i, k \in DOMAIN o : i # k => o[i] # o[k]
        /\ \A i, k \in DOMAIN o :
               i < k => ~FLess(QSumPrices(ClientJobsBetween(o[i], start, end)),
                               QSumPrices(ClientJobsBetween(o[k], start, end)))}

\* GET /admin/best-clients: the raw query, its bounds put into it as texts.
\* The groups are the clients the join has a row for.
BestClients(r, start, end, limit) ==
    /\ req[r].pc = "idle"
    /\ LET rq == [IdleQuery EXCEPT !.op = "bestClients", !.pc = "done",
                                   !.start = start, !.end = end, !.limit = limit]
           groups == {p \in ProfileRows :
                         /\ QProfile[p].type = "client"
                         /\ ClientJobsBetween(p, start, end) # {}}
           n == IF limit = <<>> THEN 2 ELSE limit[1]
           len == IF n < Cardinality(groups) THEN n ELSE Cardinality(groups)
       IN \E o \in OrdersByTotPaid(groups, start, end) :
              req' = [req EXCEPT ![r] =
                        [rq EXCEPT !.status = "OK",
                                   !.counted = UNION {ClientJobsBetween(p, start, end) :
                                                         p \in groups},
                                   !.result =
                                       [i \in 1..len |->
                                           [id |-> o[i],
                                            totPaid |-> QSumPrices(
                                                ClientJobsBetween(o[i], start, end))]]]]
    /\ UNCHANGED <<balance, paid, paymentDate, touched>>

\* GET /contracts/:id
GetContract(r, caller, id) ==
    /\ req[r].pc = "idle"
    /\ caller \in ProfileRows
    /\ LET rq == [IdleQuery EXCEPT !.op = "getContract", !.pc = "done",
                                   !.caller = caller, !.id = id]
       IN req' = [req EXCEPT ![r] =
                    IF id \notin ContractRows THEN [rq EXCEPT !.status = "NotFound"]
                    ELSE IF caller # id THEN [rq EXCEPT !.status = "Forbidden"]
                    ELSE [rq EXCEPT !.status = "OK", !.result = <<id>>]]
    /\ UNCHANGED <<balance, paid, paymentDate, touched>>

QueryNext ==
    \/ \E r \in QueryReqs, start \in DateInputs, end \in DateInputs,
          throws \in BOOLEAN : BestProfession(r, start, end, throws)
    \/ \E r \in QueryReqs, start \in DateInputs, end \in DateInputs,
          limit \in LimitInputs : BestClients(r, start, end, limit)
    \/ \E r \in QueryReqs, caller \in QProfiles, id \in ContractIdInputs :
           GetContract(r, caller, id)

QuerySpec == QueryInit /\ [][QueryNext]_vars

(***************************************************************************)
(* The claims.                                                             *)
(***************************************************************************)
IsPay(r) == req[r].op = "pay"

IsDeposit(r) == req[r].op = "deposit"

Done(r) == req[r].pc = "done"

\* Every request has its response, or has not started.
Quiescent == \A r \in Reqs : req[r].pc \in {"idle", "done"}

\* The jobs the run has paid.
NewlyPaid == {j \in JobIds : InitPaid[j] = NULL /\ paid[j] # NULL}

RECURSIVE SumOver(_, _)
SumOver(S, f) ==
    IF S = {} THEN 0
    ELSE LET x == CHOOSE y \in S : TRUE IN f[x] + SumOver(S \ {x}, f)

PriceOf == [j \in JobIds |-> Job[j].price]

\* C1. Exactly-once payment: two Pay calls on one job (made by its client,
\* who can afford it, neither stopped by a storage error, and nothing else
\* running) end one OK and one AlreadyPaid, and the balances of the client
\* and of the contractor show one transfer of the price.
C1_ExactlyOncePayment ==
    \A j \in JobIds : \A r1, r2 \in Reqs :
        ( /\ r1 # r2
          /\ \A r \in Reqs \ {r1, r2} : req[r].pc = "idle"
          /\ \A r \in {r1, r2} :
                /\ IsPay(r) /\ Done(r) /\ req[r].arg = j
                /\ req[r].caller = ClientOf(j)
                /\ req[r].status # "Error"
          /\ InitPaid[j] = NULL
          /\ InitBalance[ClientOf(j)] >= Job[j].price )
        => /\ {req[r1].status, req[r2].status} = {"OK", "AlreadyPaid"}
           /\ balance[ClientOf(j)] = InitBalance[ClientOf(j)] - Job[j].price
           /\ balance[ContractorOf(j)] = InitBalance[ContractorOf(j)] + Job[j].price

\* C2. Atomic payment effect: a Pay that has ended has run all three of its
\* updates (client debited, contractor credited, job marked paid) or none.
C2_AtomicPayment ==
    \A r \in Reqs :
        (IsPay(r) /\ Done(r))
        => req[r].wrote \in {{}, {"client", "contractor", "job"}}

\* No deposit has been made: the requests of the run are Pay calls.
PaysOnly == \A r \in Reqs : ~IsDeposit(r)

\* C3. Conservation per payment: for every Pay that ended OK (in a run of
\* Pay calls), its debit took the stored balance of the client down by
\* exactly the price, its credit took the stored balance of the contractor
\* up by exactly the price, and it changed the balance of no other profile.
C3_ConservationPerPayment ==
    \A r \in Reqs :
        (PaysOnly /\ IsPay(r) /\ req[r].status = "OK")
        => /\ req[r].clientBefore - req[r].clientAfter = Job[req[r].arg].price
           /\ req[r].contractorAfter - req[r].contractorBefore = Job[req[r].arg].price
           /\ \A p \in Profiles :
                 <<"Profile", p>> \in touched[r]
                 => p \in {ClientOf(req[r].arg), ContractorOf(req[r].arg)}

\* C4. Serializable payments across different jobs: once Pay calls on
\* different jobs (none stopped by a storage error, no deposit made) have all
\* ended, every balance is the initial balance minus the prices of the jobs
\* the profile paid as client plus the prices of the jobs it was paid for as
\* contractor, and the sum of all balances is the initial sum.
C4_SerializablePayments ==
    ( /\ Quiescent
      /\ \A r \in Reqs : Done(r) => IsPay(r) /\ req[r].status # "Error"
      /\ \A r1, r2 \in Reqs :
            (Done(r1) /\ Done(r2) /\ r1 # r2) => req[r1].arg # req[r2].arg )
    => /\ \A p \in Profiles :
             balance[p] = InitBalance[p]
                          - SumOver({j \in NewlyPaid : ClientOf(j) = p}, PriceOf)
                          + SumOver({j \in NewlyPaid : ContractorOf(j) = p}, PriceOf)
       /\ SumOver(Profiles, balance) = SumOver(Profiles, InitBalance)

\* C5. Insufficient-balance guard: no Pay ends OK (in a run of Pay calls)
\* whose debit found the stored balance of the client below the price of
\* the job.
C5_InsufficientBalanceGuard ==
    \A r \in Reqs :
        (PaysOnly /\ IsPay(r) /\ req[r].status = "OK")
        => req[r].clientBefore >= Job[req[r].arg].price

\* C6. Pay authorization: a Pay ends OK only for the client of the job's
\* contract, and a Pay on a job that exists and is unpaid made by anyone
\* else, the contract's contractor included, ends Forbidden.
C6_PayAuthorization ==
    \A r \in Reqs :
        (IsPay(r) /\ Done(r) /\ req[r].arg \in JobIds)
        => /\ req[r].status = "OK" => req[r].caller = ClientOf(req[r].arg)
           /\ (req[r].caller # ClientOf(req[r].arg) /\ paid[req[r].arg] = NULL)
              => req[r].status = "Forbidden"

\* A contractor was refused the payment of a job of their own contract, and
\* the client of a contract paid a job of it.
C6_Witness ==
    \E r1, r2 \in Reqs :
        /\ IsPay(r1) /\ req[r1].status = "Forbidden"
        /\ req[r1].arg \in JobIds /\ req[r1].caller = ContractorOf(req[r1].arg)
        /\ paid[req[r1].arg] = NULL
        /\ IsPay(r2) /\ req[r2].status = "OK"

PayFailures == {"NotFound", "AlreadyPaid", "Forbidden", "InsufficientBalance"}

DepositFailures == {"InvalidAmount", "Forbidden", "DepositLimitExceeded"}

\* C7. Failures are side-effect free: a Pay that ended NotFound, AlreadyPaid,
\* Forbidden or InsufficientBalance and a Deposit that ended InvalidAmount,
\* Forbidden or DepositLimitExceeded has run no update and has changed no
\* balance and no job's paid or paymentDate.
C7_FailuresSideEffectFree ==
    \A r \in Reqs :
        ( \/ IsPay(r) /\ req[r].status \in PayFailures
          \/ IsDeposit(r) /\ req[r].status \in DepositFailures )
        => touched[r] = {} /\ req[r].wrote = {}

\* A Pay ended InsufficientBalance and a Deposit ended DepositLimitExceeded,
\* both after reading the store.
C7_Witness ==
    \E r1, r2 \in Reqs :
        /\ IsPay(r1) /\ req[r1].status = "InsufficientBalance"
        /\ IsDeposit(r2) /\ req[r2].status = "DepositLimitExceeded"

\* C8. paid and paymentDate move together: a job is paid if and only if its
\* paymentDate is set.
C8_PaidIffPaymentDate ==
    \A j \in JobIds : paid[j] # NULL <=> paymentDate[j] # <<>>

\* C9. Deposit ceiling: a client's deposit of a positive amount to their own
\* account ends OK if and only if amount <= 0.25 x unpaidTotal, the total the
\* ceiling check ran on; otherwise it ends DepositLimitExceeded.
C9_DepositCeiling ==
    \A r \in Reqs :
        ( /\ IsDeposit(r) /\ Done(r)
          /\ req[r].caller = req[r].arg
          /\ ProfileType[req[r].arg] = "client"
          /\ req[r].amount > 0 )
        => IF 4 * req[r].amount <= req[r].total
           THEN req[r].status = "OK"
           ELSE req[r].status = "DepositLimitExceeded"

\* C10. Deposit rejects non-positive amounts: a client's deposit of an amount
\* <= 0 to their own account (the deposit no other check refuses) ends
\* InvalidAmount and changes no balance.
C10_DepositRejectsNonPositive ==
    \A r \in Reqs :
        ( /\ IsDeposit(r) /\ Done(r)
          /\ req[r].caller = req[r].arg
          /\ ProfileType[req[r].arg] = "client"
          /\ req[r].amount <= 0 )
        => req[r].status = "InvalidAmount" /\ touched[r] = {}

\* C11. Deposit authorization: a Deposit whose caller is not its target, or
\* whose target is not of type client (a contractor depositing to
\* themselves), ends Forbidden and changes no balance.
C11_DepositAuthorization ==
    \A r \in Reqs :
        ( /\ IsDeposit(r) /\ Done(r)
          /\ req[r].caller # req[r].arg \/ ProfileType[req[r].arg] # "client" )
        => /\ req[r].status = "Forbidden"
           /\ \A p \in Profiles : <<"Profile", p>> \notin touched[r]

\* A contractor's deposit to themselves and a client's deposit to another
\* client's account have both been refused.
C11_Witness ==
    \E r1, r2 \in Reqs :
        /\ IsDeposit(r1) /\ Done(r1) /\ req[r1].status = "Forbidden"
        /\ req[r1].caller = req[r1].arg /\ ProfileType[req[r1].arg] = "contractor"
        /\ IsDeposit(r2) /\ Done(r2) /\ req[r2].status = "Forbidden"
        /\ req[r2].caller # req[r2].arg /\ ProfileType[req[r2].arg] = "client"
        /\ req[r2].amount > 0

\* C12. Repeated deposits are capped: with the requests sent one after the
\* other, once a client's deposit of the whole ceiling (amount = 0.25 x
\* unpaidTotal) has ended OK, a later deposit of a positive amount by that
\* client, no Pay sent between the two, ends DepositLimitExceeded.
C12_RepeatedDepositsCapped ==
    \A r1, r2 \in Reqs :
        ( /\ r1 < r2
          /\ IsDeposit(r1) /\ IsDeposit(r2) /\ Done(r2)
          /\ req[r1].caller = req[r1].arg /\ req[r2].caller = req[r2].arg
          /\ req[r1].arg = req[r2].arg
          /\ ProfileType[req[r1].arg] = "client"
          /\ req[r1].status = "OK"
          /\ req[r1].amount > 0 /\ 4 * req[r1].amount = req[r1].total
          /\ req[r2].amount > 0
          /\ \A r \in Reqs : (r1 < r /\ r < r2) => ~IsPay(r) )
        => req[r2].status = "DepositLimitExceeded"

\* A report that has sent its result, asked with two dates, start not after
\* end.
IsReport(r) == req[r].op \in {"bestProfession", "bestClients"}

ValidRange(r) ==
    req[r].start.valid /\ req[r].end.valid /\ req[r].start.t <= req[r].end.t

\* The paid jobs of the range as the specification has it:
\* start <= paymentDate < end.
InRange(j, start, end) ==
    /\ paid[j] # NULL /\ paymentDate[j] # <<>>
    /\ start.t <= paymentDate[j][1] /\ paymentDate[j][1] < end.t

JobsInRange(r) == {j \in JobRows : InRange(j, req[r].start, req[r].end)}

\* C13. Uniform half-open range: the jobs a report (BestProfession or
\* BestClients alike) counts are the paid jobs with start <= paymentDate <
\* end: one paid at start is counted, one paid at end is not.
C13_HalfOpenRange ==
    \A r \in QueryReqs :
        (IsReport(r) /\ req[r].status = "OK" /\ ValidRange(r))
        => req[r].counted = JobsInRange(r)

QContractors == {p \in QProfiles : QProfile[p].type = "contractor"}

RECURSIVE QSumCents(_)
QSumCents(S) ==
    IF S = {} THEN 0
    ELSE LET j == CHOOSE k \in S : TRUE IN QJob[j].price + QSumCents(S \ {j})

\* What the contractor p earned in the range of the request r, in cents.
Earned(r, p) ==
    QSumCents({j \in JobsInRange(r) : QContract[QJob[j].ContractId].ContractorId = p})

\* The contractor of the highest earnings, of the lowest id among several.
BestContractor(r) ==
    CHOOSE p \in QContractors :
        /\ \A q \in QContractors : Earned(r, q) <= Earned(r, p)
        /\ \A q \in QContractors : Earned(r, q) = Earned(r, p) => p <= q

\* C14. BestProfession selection: when some job was paid in the range, the
\* result is the profession of the contractor whose paid jobs of the range
\* sum to the maximum, of the lowest id when several contractors reach it.
C14_BestProfessionSelection ==
    \A r \in QueryReqs :
        ( /\ req[r].op = "bestProfession" /\ req[r].pc = "done"
          /\ ValidRange(r)
          /\ JobsInRange(r) # {} )
        => /\ req[r].status = "OK"
           /\ req[r].result = <<QProfile[BestContractor(r)].profession>>

\* C15. BestProfession empty result: when no job was paid in the range (the
\* store with no contractor included) the handler answers with an empty
\* result, not with the profession of a contractor.
C15_BestProfessionEmpty ==
    \A r \in QueryReqs :
        ( /\ req[r].op = "bestProfession" /\ req[r].pc = "done"
          /\ ValidRange(r)
          /\ JobsInRange(r) = {} )
        => req[r].status = "OK" /\ req[r].result = <<>>

\* What the client p paid in the range of the request r, in cents.
PaidBy(r, p) ==
    QSumCents({j \in JobsInRange(r) : QContract[QJob[j].ContractId].ClientId = p})

\* The clients listed by the result of the request r.
Listed(r) == {req[r].result[i].id : i \in DOMAIN req[r].result}

\* The limit of the request r: 2 when the query gives none.
LimitOf(r) == IF req[r].limit = <<>> THEN 2 ELSE req[r].limit[1]

\* C16. BestClients result shape: the result lists clients, none twice and
\* none who paid nothing in the range, in descending order of what they
\* paid in the range, at most limit of them (2 with no limit given) and
\* all of them when fewer have paid; no client left out paid more than a
\* client listed; the total given for a client is what the client paid.
C16_BestClientsShape ==
    \A r \in QueryReqs :
        (req[r].op = "bestClients" /\ req[r].pc = "done" /\ ValidRange(r))
        => LET res == req[r].result
               payers == {p \in QClients \cap ProfileRows : PaidBy(r, p) > 0}
           IN /\ req[r].status = "OK"
              /\ \A i, k \in DOMAIN res : i # k => res[i].id # res[k].id
              /\ Listed(r) \subseteq payers
              /\ \A i, k \in DOMAIN res :
                     i < k => PaidBy(r, res[i].id) >= PaidBy(r, res[k].id)
              /\ Len(res) = IF Cardinality(payers) < LimitOf(r)
                            THEN Cardinality(payers) ELSE LimitOf(r)
              /\ \A p \in payers \ Listed(r) : \A q \in Listed(r) :
                     PaidBy(r, p) <= PaidBy(r, q)
              /\ \A i \in DOMAIN res :
                     ToFixed2(res[i].totPaid) = PaidBy(r, res[i].id)

\* C17. Invalid range rejection: a report asked with a bound that is no
\* date, or with end before start, ends InvalidRange.
C17_InvalidRangeRejected ==
    \A r \in QueryReqs :
        ( /\ IsReport(r) /\ req[r].pc = "done"
          /\ \/ ~req[r].start.valid
             \/ ~req[r].end.valid
             \/ req[r].end.t < req[r].start.t )
        => req[r].status = "InvalidRange"

\* C18. Contract read authorization: GET /contracts/:id of a contract that
\* exists answers with the contract to its client and to its contractor,
\* and with 403 to every other caller.
C18_ContractReadAuthorization ==
    \A r \in QueryReqs :
        ( /\ req[r].op = "getContract" /\ req[r].pc = "done"
          /\ req[r].id \in ContractRows )
        => IF req[r].caller \in {QContract[req[r].id].ClientId,
                                 QContract[req[r].id].ContractorId}
           THEN req[r].status = "OK" /\ req[r].result = <<req[r].id>>
           ELSE req[r].status = "Forbidden"

\* C19. Non-negative balances: after any sequence of Pay and Deposit calls,
\* whatever their inputs, the balance of every profile is >= 0.
C19_NonNegativeBalances == \A p \in Profiles : balance[p] >= 0

\* C20. No lost balance update between Deposit and Pay: when a Deposit of a
\* positive amount and a Pay of the same client, the only requests of the
\* run, have both ended OK, the balance of the client is its initial
\* balance plus the amount deposited minus the price paid.
C20_NoLostUpdate ==
    \A r1, r2 \in Reqs :
        ( /\ r1 # r2
          /\ \A r \in Reqs \ {r1, r2} : req[r].pc = "idle"
          /\ IsDeposit(r1) /\ req[r1].status = "OK" /\ req[r1].amount > 0
          /\ IsPay(r2) /\ req[r2].status = "OK"
          /\ req[r1].arg = req[r2].caller )
        => balance[req[r2].caller] =
               InitBalance[req[r2].caller] + req[r1].amount - Job[req[r2].arg].price

====
